---- MODULE Spec2Model ----
(***************************************************************************)
(* trs80m1-mltl: packs a binary file into a TRS-80 Model I "system" tape   *)
(* image.  The module models src/src/main.rs (argument handling, the hex   *)
(* argument parser, the tape entry name sanitizer, the exit status) and    *)
(* src/src/packing.rs (sanity check, header, chunk records, trailer, the   *)
(* write of the destination file).                                         *)
(*                                                                         *)
(* Bytes are 0..255, u16 values 0..65535.  A u32 is kept as two 16-bit     *)
(* halves [hi, lo] so that its arithmetic keeps its width.  Characters are *)
(* Unicode code points, strings are sequences of code points.              *)
(***************************************************************************)
EXTENDS Integers, Sequences, FiniteSets, TLC

VARIABLES
    pc,                 \* position of main / pack
    exit_status,        \* -1 while running, else the process exit status
    diag,               \* which diagnostic (error kind) was reported, "" if none
    reported_max,       \* the maximum size printed by the capacity diagnostic, -1 if none
    in_filepath,        \* main: in_filepath
    out_filepath,       \* main: out_filepath
    missing_mand_arg,   \* main: missing_mand_arg
    base_address,       \* main: base_address (u16)
    entry_point,        \* main: entry_point (u16)
    tape_entry_name,    \* main: tape_entry_name (6 bytes)
    name_has_letters,   \* main: name_has_letters
    input_buffer,       \* pack: input_buffer
    output_buffer,      \* pack: output_buffer
    already_packed,     \* pack_binary_image: already_packed
    full_chunks_count,  \* pack_binary_image: full_chunks_count
    last_chunk_size,    \* pack_binary_image: last_chunk_size (-1 is None)
    packed_report,      \* the "Packed ..." line: [full, last] (last = -1: not printed)
    out_file,           \* the destination file: [state, content]
    hex_arg,            \* the hex argument under test (SpecHex)
    hex_result,         \* what retrieve_base_address / retrieve_entry_point returned
    template,           \* the entry name template under test (SpecName)
    name_result         \* what retrieve_tape_entry_name returned

vars == <<pc, exit_status, diag, reported_max, in_filepath, out_filepath,
          missing_mand_arg, base_address, entry_point, tape_entry_name,
          name_has_letters, input_buffer, output_buffer, already_packed,
          full_chunks_count, last_chunk_size, packed_report, out_file,
          hex_arg, hex_result, template, name_result>>

mainVars == <<pc, exit_status, diag, reported_max, in_filepath, out_filepath,
              missing_mand_arg, base_address, entry_point, tape_entry_name,
              name_has_letters, input_buffer, output_buffer, already_packed,
              full_chunks_count, last_chunk_size, packed_report, out_file>>

----
\* Program constants.

\* The largest chunk: already_packed..already_packed+256 (packing.rs:143).
ChunkSize == 256
\* The Z80's address space, 0x10000 (packing.rs:67).
AddrSpace == 65536
\* The tape leader's length (packing.rs:87).
LeaderLen == 256
\* The length of a tape entry name (main.rs:145).
NameLen == 6

\* Bounds of the model.

\* Input lengths around k * ChunkSize are tried for k up to MaxChunks.
MaxChunks == 2
\* Input byte patterns 0..MaxSeed.
MaxSeed == 1
\* Hex arguments of up to MaxHexDigits digits after the optional prefix.
MaxHexDigits == 9
\* Entry name templates of up to MaxTemplateLen characters.
MaxTemplateLen == 7

Byte == 0..255
None == [some |-> FALSE]
Some(v) == [some |-> TRUE, val |-> v]

\* Code points of the characters the model's strings are written with.
Ord ==
    (" " :> 32) @@ ("0" :> 48) @@ ("1" :> 49) @@ ("2" :> 50) @@ ("3" :> 51) @@
    ("4" :> 52) @@ ("9" :> 57) @@ ("@" :> 64) @@ ("A" :> 65) @@ ("B" :> 66) @@
    ("D" :> 68) @@ ("E" :> 69) @@ ("F" :> 70) @@ ("G" :> 71) @@ ("X" :> 88) @@
    ("Z" :> 90) @@ ("[" :> 91) @@ ("backquote" :> 96) @@ ("a" :> 97) @@ ("b" :> 98) @@
    ("c" :> 99) @@ ("d" :> 100) @@ ("e" :> 101) @@ ("f" :> 102) @@ ("g" :> 103) @@
    ("h" :> 104) @@ ("l" :> 108) @@ ("o" :> 111) @@ ("p" :> 112) @@ ("r" :> 114) @@
    ("w" :> 119) @@ ("x" :> 120) @@ ("z" :> 122) @@ ("{" :> 123) @@ ("e-acute" :> 233) @@
    ("C" :> 67) @@ ("H" :> 72) @@ ("L" :> 76) @@ ("O" :> 79) @@ ("W" :> 87)

\* The string written as a tuple of characters, as code points.
Str(s) == [i \in 1..Len(s) |-> Ord[s[i]]]

\* All sequences over S of length at most n.
SeqsUpTo(S, n) == UNION {[1..k -> S] : k \in 0..n}

----
\* main.rs: the hex argument parser.

\* char::to_digit(16).
to_digit(c) ==
    IF c >= 48 /\ c <= 57 THEN Some(c - 48)
    ELSE IF c >= 97 /\ c <= 102 THEN Some(c - 97 + 10)
    ELSE IF c >= 65 /\ c <= 70 THEN Some(c - 65 + 10)
    ELSE None

\* A u32 from a small value.
U32(n) == [hi |-> 0, lo |-> n]

\* (accumulator << 4) | digit on a u32: the bits shifted past bit 31 are lost.
ShlOr(acc, digit) ==
    [hi |-> ((acc.hi * 16) % 65536) + (acc.lo \div 4096),
     lo |-> ((acc.lo * 16) % 65536) + digit]

\* The loop `for current_char in chars' of parse_hex_arg.
RECURSIVE HexLoop(_, _)
HexLoop(accumulator, chars) ==
    IF chars = <<>> THEN Some(accumulator)
    ELSE LET d == to_digit(Head(chars))
         IN  IF d.some THEN HexLoop(ShlOr(accumulator, d.val), Tail(chars))
             ELSE None

parse_hex_arg(arg) ==
    IF arg = <<>> THEN None
    ELSE LET first_char_ch == arg[1]
             prefixed == first_char_ch = 48 /\ Len(arg) >= 2
             effective_first_char ==
                 IF first_char_ch = 48
                 THEN IF Len(arg) >= 2
                      THEN IF arg[2] = 120 \/ arg[2] = 88 THEN 48 ELSE arg[2]
                      ELSE 48
                 ELSE first_char_ch
             chars == IF prefixed THEN SubSeq(arg, 3, Len(arg)) ELSE Tail(arg)
             d == to_digit(effective_first_char)
         IN  IF d.some THEN HexLoop(U32(d.val), chars) ELSE None

\* retrieve_base_address / retrieve_entry_point: None, or Some((found, address)).
\* opt is matches.opt_str(..): None or Some(argument).
RetrieveAddress(opt, kind) ==
    IF opt.some
    THEN LET parsed == parse_hex_arg(opt.val)
         IN  IF parsed.some
             THEN IF parsed.val.hi > 0
                  THEN [ret |-> None, msg |-> kind \o " does not fit"]
                  ELSE [ret |-> Some([found |-> TRUE, address |-> parsed.val.lo]),
                        msg |-> ""]
             ELSE [ret |-> None, msg |-> kind \o " parse failure"]
    ELSE [ret |-> Some([found |-> FALSE, address |-> 0]),
          msg |-> kind \o " not specified"]

retrieve_base_address(opt) == RetrieveAddress(opt, "base address")
retrieve_entry_point(opt) == RetrieveAddress(opt, "entry point")

----
\* main.rs: the tape entry name sanitizer.

\* The iteration with a space retained whether or not a letter came before.
NameStepAnySpace(st, char_val) ==
    IF char_val = 32 \/ (char_val >= 65 /\ char_val <= 90)
    THEN [entry_name |-> [st.entry_name EXCEPT ![st.name_iter + 1] = char_val],
          name_iter |-> st.name_iter + 1,
          has_first_char |-> st.has_first_char \/ char_val # 32]
    ELSE IF char_val >= 97 /\ char_val <= 122
    THEN [entry_name |-> [st.entry_name EXCEPT ![st.name_iter + 1] = char_val - 32],
          name_iter |-> st.name_iter + 1,
          has_first_char |-> TRUE]
    ELSE st

\* The iteration with every space dropped.
NameStepNoSpace(st, char_val) ==
    IF char_val >= 65 /\ char_val <= 90
    THEN [entry_name |-> [st.entry_name EXCEPT ![st.name_iter + 1] = char_val],
          name_iter |-> st.name_iter + 1,
          has_first_char |-> TRUE]
    ELSE IF char_val >= 97 /\ char_val <= 122
    THEN [entry_name |-> [st.entry_name EXCEPT ![st.name_iter + 1] = char_val - 32],
          name_iter |-> st.name_iter + 1,
          has_first_char |-> TRUE]
    ELSE st

\* One iteration of `for character in template.chars()' on the state
\* [entry_name, name_iter, has_first_char].
NameStep(st, char_val) ==
    IF char_val = 32 /\ st.has_first_char
    THEN [entry_name |-> [st.entry_name EXCEPT ![st.name_iter + 1] = 32],
          name_iter |-> st.name_iter + 1,
          has_first_char |-> st.has_first_char]
    ELSE IF char_val >= 65 /\ char_val <= 90
    THEN [entry_name |-> [st.entry_name EXCEPT ![st.name_iter + 1] = char_val],
          name_iter |-> st.name_iter + 1,
          has_first_char |-> TRUE]
    ELSE IF char_val >= 97 /\ char_val <= 122
    THEN [entry_name |-> [st.entry_name EXCEPT ![st.name_iter + 1] = char_val - 32],
          name_iter |-> st.name_iter + 1,
          has_first_char |-> TRUE]
    ELSE st

RECURSIVE NameLoop(_, _)
NameLoop(st, chars) ==
    IF chars = <<>> \/ st.name_iter = NameLen THEN st
    ELSE NameLoop(NameStep(st, Head(chars)), Tail(chars))

\* Returns (name, contains_letters).  n_opt is matches.opt_str("n").
retrieve_tape_entry_name(default, n_opt) ==
    LET tmpl == IF n_opt.some THEN n_opt.val ELSE default
        st == NameLoop([entry_name |-> [i \in 1..NameLen |-> 32],
                        name_iter |-> 0,
                        has_first_char |-> FALSE], tmpl)
    IN  <<st.entry_name, st.has_first_char>>

----
\* packing.rs: the pure parts of the packer.

\* Option<usize> of load_input_file, Option<address> etc. use None / Some above.

\* input_file_sanity_check with the capacity test off by one (>= for >).
input_file_sanity_check_off_by_one(base, length) ==
    IF length >= AddrSpace - base
    THEN [ok |-> FALSE, diag |-> "CapacityExceeded", max |-> AddrSpace - base]
    ELSE IF length = 0
    THEN [ok |-> FALSE, diag |-> "EmptyInput", max |-> -1]
    ELSE [ok |-> TRUE, diag |-> "", max |-> -1]

\* input_file_sanity_check: [ok, diag, max] (max: the size the diagnostic prints).
input_file_sanity_check(base, length) ==
    IF length > AddrSpace - base
    THEN [ok |-> FALSE, diag |-> "CapacityExceeded", max |-> AddrSpace - base]
    ELSE IF length = 0
    THEN [ok |-> FALSE, diag |-> "EmptyInput", max |-> -1]
    ELSE [ok |-> TRUE, diag |-> "", max |-> -1]

generate_data_entry_header(entry_name, buffer) ==
    buffer \o [i \in 1..LeaderLen |-> 0] \o <<165, 85>>
           \o [count \in 1..NameLen |-> entry_name[count]]

\* An addition that saturates at 255 instead of wrapping.
saturating_add(a, b) == IF a + b > 255 THEN 255 ELSE a + b

\* u8::wrapping_add.
wrapping_add(a, b) == (a + b) % 256

\* A length byte that saturates at 255 instead of encoding 256 as 0.
LengthByteSaturating(n) == IF n > 255 THEN 255 ELSE n

\* The length byte of a chunk record: 0 = 256.
LengthByte(n) == IF n = ChunkSize THEN 0 ELSE n % 256

\* The load address bytes in the wrong order, msb then lsb.
AddressBytesMsbFirst(load_address) ==
    <<(load_address \div 256) % 256, load_address % 256>>

\* The two load address bytes, lsb then msb.
AddressBytes(load_address) ==
    <<load_address % 256, (load_address \div 256) % 256>>

\* The checksum loop of pack_chunk over chunk[chunk_iter..last], in order.
RECURSIVE ChecksumRun(_, _, _, _)
ChecksumRun(checksum, chunk, chunk_iter, last) ==
    IF chunk_iter > last THEN checksum
    ELSE LET next == wrapping_add(checksum, chunk[chunk_iter])
         IN  IF next \in Byte THEN ChecksumRun(next, chunk, chunk_iter + 1, last)
             ELSE next

\* The whole loop `for chunk_iter in 0..chunk_to_pack.len()': the same left to
\* right accumulation, evaluated in runs of 16 bytes to keep the evaluator's
\* recursion shallow.
RECURSIVE ChecksumLoop(_, _, _)
ChecksumLoop(checksum, chunk, chunk_iter) ==
    IF chunk_iter > Len(chunk) THEN checksum
    ELSE LET last == IF chunk_iter + 15 < Len(chunk) THEN chunk_iter + 15 ELSE Len(chunk)
             next == ChecksumRun(checksum, chunk, chunk_iter, last)
         IN  IF next \in Byte THEN ChecksumLoop(next, chunk, last + 1)
             ELSE next

\* pack_chunk: [buffer (the output buffer afterwards), size (the return value)].
pack_chunk(chunk_to_pack, buffer, load_address) ==
    LET addr == AddressBytes(load_address)
        checksum0 == wrapping_add(wrapping_add(0, addr[1]), addr[2])
        checksum == ChecksumLoop(checksum0, chunk_to_pack, 1)
    IN  [buffer |-> buffer \o <<60, LengthByte(Len(chunk_to_pack))>> \o addr
                           \o chunk_to_pack \o <<checksum>>,
         size |-> Len(chunk_to_pack)]

\* The full chunk test off by one (> 256 for > 255).
TakesFullChunkOffByOne(binary_image_length, packed) ==
    binary_image_length - packed > 256

\* The test of pack_binary_image's loop body: a full chunk is next.
TakesFullChunk(binary_image_length, packed) ==
    binary_image_length - packed > 255

\* How many bytes the next iteration of pack_binary_image's loop takes:
\* input_buffer[already_packed..already_packed+256] or input_buffer[already_packed..].
NextChunkLen(binary_image_length, packed) ==
    IF TakesFullChunk(binary_image_length, packed) THEN ChunkSize
    ELSE binary_image_length - packed

\* base_address + (already_packed as u16), a u16 addition: on overflow a build
\* with overflow checks panics and one without wraps.
LoadAddressOutcomes(base, packed) ==
    LET sum == base + (packed % 65536)
    IN  IF sum < 65536 THEN {[panic |-> FALSE, address |-> sum]}
        ELSE {[panic |-> TRUE, address |-> 0],
              [panic |-> FALSE, address |-> sum % 65536]}

\* The trailer with the entry point msb first.
finalize_data_entry_msb_first(entry, buffer) ==
    buffer \o <<120, (entry \div 256) % 256, entry % 256>>

\* finalize_data_entry.
finalize_data_entry(entry, buffer) ==
    buffer \o <<120, entry % 256, (entry \div 256) % 256>>

----
\* The environment: command lines and files.

Path(dir, stem, ext) == [dir |-> dir, stem |-> stem, ext |-> ext]
\* Path::file_name, PathBuf::set_extension, and the name used as a string.
file_name(path) == [path EXCEPT !.dir = ""]
set_extension(path, ext) == [path EXCEPT !.ext = ext]
NoPath == Path("", <<>>, "")

ProgBin == Path("sub", Str(<<"p", "r", "o", "g">>), "bin")
DigitsBin == Path("", Str(<<"1", "2", "3">>), "bin")
TapeCas == Path("", Str(<<"a">>), "cas")
SomeDir == Path("", Str(<<"d">>), "")
OutCas == Path("", Str(<<"o">>), "cas")

\* -i: the path and whether Path::is_file holds of it.
InputOptions ==
    {None, Some([path |-> SomeDir, is_file |-> FALSE]),
     Some([path |-> ProgBin, is_file |-> TRUE]),
     Some([path |-> DigitsBin, is_file |-> TRUE]),
     Some([path |-> TapeCas, is_file |-> TRUE])}

HexDigitChar(d) == IF d < 10 THEN 48 + d ELSE 65 + d - 10
ToHex4(n) ==
    <<HexDigitChar(n \div 4096), HexDigitChar((n \div 256) % 16),
      HexDigitChar((n \div 16) % 16), HexDigitChar(n % 16)>>

\* -b: addresses at the bottom, in the middle and just below the top of the
\* address space, and arguments that are no address.
BaseOptions ==
    {None} \cup
    {Some(ToHex4(AddrSpace - (k * ChunkSize) - e)) : k \in 1..MaxChunks, e \in {0, 1}} \cup
    {Some(Str(<<"0">>)), Some(Str(<<"0", "x", "4", "0", "0", "0">>)),
     Some(Str(<<"0", "X", "F", "F", "F", "F">>)),
     Some(Str(<<"1", "0", "0", "0", "0">>)),
     Some(Str(<<"1", "0", "0", "0", "0", "0", "0", "0", "0">>)),
     Some(Str(<<"4", "g">>))}

\* -s
EntryOptions ==
    {None, Some(Str(<<"0", "x", "4", "0", "0", "0">>)),
     Some(Str(<<"f", "f", "0", "1">>)), Some(Str(<<"x">>)),
     Some(Str(<<"F", "F", "F", "F", "F">>))}

\* -n
NameOptions ==
    {None, Some(Str(<<"a", "b", " ", "c", "d">>)), Some(Str(<<"1", "2", "3">>))}

\* -o: absent, the input file itself, or another file.
OutputOptions(input) == {None, Some(input), Some(OutCas)}

\* The input file's content: one of a few byte patterns of a given length.
InputFile(length, seed) ==
    [i \in 1..length |-> (seed + ((i - 1) * ((2 * seed) + 1))) % 256]

InputLengths ==
    {0, 1, 2, 300} \cup
    {(k * ChunkSize) + d : k \in 1..MaxChunks, d \in {-1, 0, 1}}

----
\* main.rs and packing.rs: the program.

\* An exit status that ignores pack's result.
PackExitStatusAlwaysZero(packed) == 0

\* main: process::exit(0) if packing::pack returned true, process::exit(1) if not.
PackExitStatus(packed) == IF packed THEN 0 ELSE 1

Exit(status, message) ==
    /\ pc' = "exit"
    /\ exit_status' = status
    /\ diag' = message

IdleHex == hex_arg = <<>> /\ hex_result = [done |-> FALSE]
IdleName == template = <<>> /\ name_result = [done |-> FALSE]
IdleMain ==
    /\ pc = "idle" /\ exit_status = -1 /\ diag = "" /\ reported_max = -1
    /\ in_filepath = NoPath /\ out_filepath = NoPath /\ missing_mand_arg = FALSE
    /\ base_address = 0 /\ entry_point = 0
    /\ tape_entry_name = <<>> /\ name_has_letters = FALSE
    /\ input_buffer = <<>> /\ output_buffer = <<>>
    /\ already_packed = 0 /\ full_chunks_count = 0 /\ last_chunk_size = -1
    /\ packed_report = None
    /\ out_file = [state |-> "untouched", content |-> <<>>]

Init ==
    /\ pc = "parse_args" /\ exit_status = -1 /\ diag = "" /\ reported_max = -1
    /\ in_filepath = NoPath /\ out_filepath = NoPath /\ missing_mand_arg = FALSE
    /\ base_address = 0 /\ entry_point = 0
    /\ tape_entry_name = <<>> /\ name_has_letters = FALSE
    /\ input_buffer = <<>> /\ output_buffer = <<>>
    /\ already_packed = 0 /\ full_chunks_count = 0 /\ last_chunk_size = -1
    /\ packed_report = None
    /\ out_file = [state |-> "untouched", content |-> <<>>]
    /\ IdleHex /\ IdleName

\* main: options.parse(&args[1..]).
ParseArgs ==
    /\ pc = "parse_args"
    /\ \E ok \in BOOLEAN :
          IF ok THEN pc' = "help" /\ UNCHANGED <<exit_status, diag>>
          ELSE Exit(1, "ArgumentParseError")
    /\ UNCHANGED <<reported_max, in_filepath, out_filepath, missing_mand_arg,
                   base_address, entry_point, tape_entry_name, name_has_letters,
                   input_buffer, output_buffer, already_packed, full_chunks_count,
                   last_chunk_size, packed_report, out_file,
                   hex_arg, hex_result, template, name_result>>

\* main: matches.opt_present("h").
Help ==
    /\ pc = "help"
    /\ \E h \in BOOLEAN :
          IF h THEN Exit(0, "usage")
          ELSE pc' = "input_opt" /\ UNCHANGED <<exit_status, diag>>
    /\ UNCHANGED <<reported_max, in_filepath, out_filepath, missing_mand_arg,
                   base_address, entry_point, tape_entry_name, name_has_letters,
                   input_buffer, output_buffer, already_packed, full_chunks_count,
                   last_chunk_size, packed_report, out_file,
                   hex_arg, hex_result, template, name_result>>

\* main: matches.opt_str("i").
InputOpt ==
    /\ pc = "input_opt"
    /\ \E opt \in InputOptions :
          IF opt.some
          THEN IF ~opt.val.is_file
               THEN Exit(1, "not a file")
                    /\ UNCHANGED <<in_filepath, missing_mand_arg>>
               ELSE /\ in_filepath' = opt.val.path
                    /\ pc' = "base_opt"
                    /\ UNCHANGED <<exit_status, diag, missing_mand_arg>>
          ELSE /\ missing_mand_arg' = TRUE
               /\ in_filepath' = NoPath
               /\ pc' = "base_opt"
               /\ UNCHANGED <<exit_status, diag>>
    /\ UNCHANGED <<reported_max, out_filepath,
                   base_address, entry_point, tape_entry_name, name_has_letters,
                   input_buffer, output_buffer, already_packed, full_chunks_count,
                   last_chunk_size, packed_report, out_file,
                   hex_arg, hex_result, template, name_result>>

\* main: retrieve_base_address.
BaseOpt ==
    /\ pc = "base_opt"
    /\ \E opt \in BaseOptions :
          LET r == retrieve_base_address(opt)
          IN  IF r.ret.some
              THEN /\ base_address' = r.ret.val.address
                   /\ missing_mand_arg' = (missing_mand_arg \/ ~r.ret.val.found)
                   /\ pc' = "entry_opt"
                   /\ UNCHANGED <<exit_status, diag>>
              ELSE /\ Exit(1, r.msg)
                   /\ UNCHANGED <<base_address, missing_mand_arg>>
    /\ UNCHANGED <<reported_max, in_filepath, out_filepath,
                   entry_point, tape_entry_name, name_has_letters,
                   input_buffer, output_buffer, already_packed, full_chunks_count,
                   last_chunk_size, packed_report, out_file,
                   hex_arg, hex_result, template, name_result>>

\* main: retrieve_entry_point.
EntryOpt ==
    /\ pc = "entry_opt"
    /\ \E opt \in EntryOptions :
          LET r == retrieve_entry_point(opt)
          IN  IF r.ret.some
              THEN /\ entry_point' = r.ret.val.address
                   /\ missing_mand_arg' = (missing_mand_arg \/ ~r.ret.val.found)
                   /\ pc' = "mand_check"
                   /\ UNCHANGED <<exit_status, diag>>
              ELSE /\ Exit(1, r.msg)
                   /\ UNCHANGED <<entry_point, missing_mand_arg>>
    /\ UNCHANGED <<reported_max, in_filepath, out_filepath,
                   base_address, tape_entry_name, name_has_letters,
                   input_buffer, output_buffer, already_packed, full_chunks_count,
                   last_chunk_size, packed_report, out_file,
                   hex_arg, hex_result, template, name_result>>

\* main: if missing_mand_arg.
MandCheck ==
    /\ pc = "mand_check"
    /\ IF missing_mand_arg THEN Exit(1, "missing mandatory option")
       ELSE pc' = "optional" /\ UNCHANGED <<exit_status, diag>>
    /\ UNCHANGED <<reported_max, in_filepath, out_filepath, missing_mand_arg,
                   base_address, entry_point, tape_entry_name, name_has_letters,
                   input_buffer, output_buffer, already_packed, full_chunks_count,
                   last_chunk_size, packed_report, out_file,
                   hex_arg, hex_result, template, name_result>>

\* main: the optional arguments -o and -n and their defaults.
OptionalArgs ==
    /\ pc = "optional"
    /\ \E o_opt \in OutputOptions(in_filepath), n_opt \in NameOptions :
          LET in_filename == file_name(in_filepath)
              default_entry_name == set_extension(in_filename, "")
              name == retrieve_tape_entry_name(default_entry_name.stem, n_opt)
          IN  /\ out_filepath' = IF o_opt.some THEN o_opt.val
                                 ELSE set_extension(in_filename, "cas")
              /\ tape_entry_name' = name[1]
              /\ name_has_letters' = name[2]
    /\ pc' = "pre_checks"
    /\ UNCHANGED <<exit_status, diag, reported_max, in_filepath, missing_mand_arg,
                   base_address, entry_point,
                   input_buffer, output_buffer, already_packed, full_chunks_count,
                   last_chunk_size, packed_report, out_file,
                   hex_arg, hex_result, template, name_result>>

\* main: in_filepath == out_filepath, !name_has_letters.
PreChecks ==
    /\ pc = "pre_checks"
    /\ IF in_filepath = out_filepath THEN Exit(1, "PathConflict")
       ELSE IF ~name_has_letters THEN Exit(1, "EmptyEntryName")
       ELSE pc' = "load" /\ UNCHANGED <<exit_status, diag>>
    /\ UNCHANGED <<reported_max, in_filepath, out_filepath, missing_mand_arg,
                   base_address, entry_point, tape_entry_name, name_has_letters,
                   input_buffer, output_buffer, already_packed, full_chunks_count,
                   last_chunk_size, packed_report, out_file,
                   hex_arg, hex_result, template, name_result>>

\* pack: load_input_file; a failure returns false and main exits with 1.
Load ==
    /\ pc = "load"
    /\ \/ /\ Exit(PackExitStatus(FALSE), "InputReadError")
          /\ UNCHANGED input_buffer
       \/ \E length \in InputLengths, seed \in 0..MaxSeed :
             /\ input_buffer' = InputFile(length, seed)
             /\ pc' = "sanity"
             /\ UNCHANGED <<exit_status, diag>>
    /\ UNCHANGED <<reported_max, in_filepath, out_filepath, missing_mand_arg,
                   base_address, entry_point, tape_entry_name, name_has_letters,
                   output_buffer, already_packed, full_chunks_count,
                   last_chunk_size, packed_report, out_file,
                   hex_arg, hex_result, template, name_result>>

\* pack: input_file_sanity_check.
SanityCheck ==
    /\ pc = "sanity"
    /\ LET r == input_file_sanity_check(base_address, Len(input_buffer))
       IN  IF r.ok
           THEN pc' = "header" /\ UNCHANGED <<exit_status, diag, reported_max>>
           ELSE Exit(PackExitStatus(FALSE), r.diag) /\ reported_max' = r.max
    /\ UNCHANGED <<in_filepath, out_filepath, missing_mand_arg,
                   base_address, entry_point, tape_entry_name, name_has_letters,
                   input_buffer, output_buffer, already_packed, full_chunks_count,
                   last_chunk_size, packed_report, out_file,
                   hex_arg, hex_result, template, name_result>>

\* pack: generate_data_entry_header.
Header ==
    /\ pc = "header"
    /\ output_buffer' = generate_data_entry_header(tape_entry_name, output_buffer)
    /\ pc' = "pack_loop"
    /\ UNCHANGED <<exit_status, diag, reported_max, in_filepath, out_filepath,
                   missing_mand_arg, base_address, entry_point, tape_entry_name,
                   name_has_letters, input_buffer, already_packed, full_chunks_count,
                   last_chunk_size, packed_report, out_file,
                   hex_arg, hex_result, template, name_result>>

\* pack_binary_image: one iteration of the while loop.
PackLoop ==
    /\ pc = "pack_loop"
    /\ already_packed < Len(input_buffer)
    /\ \E la \in LoadAddressOutcomes(base_address, already_packed) :
          IF la.panic
          THEN /\ Exit(101, "panic")
               /\ UNCHANGED <<output_buffer, already_packed, full_chunks_count,
                              last_chunk_size>>
          ELSE LET n == NextChunkLen(Len(input_buffer), already_packed)
                   r == pack_chunk(SubSeq(input_buffer, already_packed + 1,
                                          already_packed + n),
                                   output_buffer, la.address)
               IN  /\ output_buffer' = r.buffer
                   /\ already_packed' = already_packed + r.size
                   /\ IF TakesFullChunk(Len(input_buffer), already_packed)
                      THEN /\ full_chunks_count' = full_chunks_count + 1
                           /\ UNCHANGED last_chunk_size
                      ELSE /\ last_chunk_size' = r.size
                           /\ UNCHANGED full_chunks_count
                   /\ UNCHANGED <<pc, exit_status, diag>>
    /\ UNCHANGED <<reported_max, in_filepath, out_filepath,
                   missing_mand_arg, base_address, entry_point, tape_entry_name,
                   name_has_letters, input_buffer, packed_report, out_file,
                   hex_arg, hex_result, template, name_result>>

\* pack_binary_image: the loop's exit and the "Packed ..." line.
PackReport ==
    /\ pc = "pack_loop"
    /\ ~(already_packed < Len(input_buffer))
    /\ packed_report' = Some([full |-> full_chunks_count, last |-> last_chunk_size])
    /\ pc' = "finalize"
    /\ UNCHANGED <<exit_status, diag, reported_max, in_filepath, out_filepath,
                   missing_mand_arg, base_address, entry_point, tape_entry_name,
                   name_has_letters, input_buffer, output_buffer, already_packed,
                   full_chunks_count, last_chunk_size, out_file,
                   hex_arg, hex_result, template, name_result>>

\* pack: finalize_data_entry.
Finalize ==
    /\ pc = "finalize"
    /\ output_buffer' = finalize_data_entry(entry_point, output_buffer)
    /\ pc' = "write"
    /\ UNCHANGED <<exit_status, diag, reported_max, in_filepath, out_filepath,
                   missing_mand_arg, base_address, entry_point, tape_entry_name,
                   name_has_letters, input_buffer, already_packed, full_chunks_count,
                   last_chunk_size, packed_report, out_file,
                   hex_arg, hex_result, template, name_result>>

\* pack: write_down_tape_file, and main's exit with its result.  File::create
\* may fail; write_all may fail having written any part of the buffer.
Write ==
    /\ pc = "write"
    /\ \E outcome \in {"create failed", "write failed", "written"} :
          IF outcome = "create failed"
          THEN Exit(PackExitStatus(FALSE), "OutputWriteError") /\ UNCHANGED out_file
          ELSE IF outcome = "write failed"
          THEN /\ Exit(PackExitStatus(FALSE), "OutputWriteError")
               /\ \E k \in {0, LeaderLen, Len(output_buffer) - 1} :
                     out_file' = [state |-> "partial",
                                  content |-> SubSeq(output_buffer, 1, k)]
          ELSE /\ Exit(PackExitStatus(TRUE), "")
               /\ out_file' = [state |-> "written", content |-> output_buffer]
    /\ UNCHANGED <<reported_max, in_filepath, out_filepath,
                   missing_mand_arg, base_address, entry_point, tape_entry_name,
                   name_has_letters, input_buffer, output_buffer, already_packed,
                   full_chunks_count, last_chunk_size, packed_report,
                   hex_arg, hex_result, template, name_result>>

Next ==
    \/ ParseArgs \/ Help \/ InputOpt \/ BaseOpt \/ EntryOpt \/ MandCheck
    \/ OptionalArgs \/ PreChecks \/ Load \/ SanityCheck \/ Header
    \/ PackLoop \/ PackReport \/ Finalize \/ Write

Spec == Init /\ [][Next]_vars

\* The program is one thread that keeps running: pack_binary_image's loop is
\* not left waiting.  This is weak fairness of the loop's step, with the
\* step's enabling condition (pc = "pack_loop") written out.
FairSpec ==
    Spec /\ (<>[](pc = "pack_loop") => []<><<PackLoop \/ PackReport>>_vars)

----
\* The hex argument parser on its own: every argument of a bounded shape is
\* handed to retrieve_base_address or retrieve_entry_point.

\* Optional prefix, then up to MaxHexDigits digits out of "0", "1", "F"; and
\* all short strings over digits, letters around the hex ranges and the prefix letters.
HexArgs ==
    {pre \o digits :
        pre \in {<<>>, Str(<<"0", "x">>), Str(<<"0", "X">>)},
        digits \in SeqsUpTo({Ord["0"], Ord["F"]}, MaxHexDigits)} \cup
    SeqsUpTo({Ord[c] : c \in {"0", "1", "9", "a", "f", "g", "A", "F", "G", "@",
                              "backquote", "x", "X"}}, 3)

InitHex ==
    /\ IdleMain /\ IdleName
    /\ hex_arg \in HexArgs
    /\ hex_result = [done |-> FALSE]

HexRetrieveBase ==
    /\ pc = "idle" /\ ~hex_result.done /\ hex_arg \in HexArgs
    /\ hex_result' = [done |-> TRUE, option |-> "b",
                      ret |-> retrieve_base_address(Some(hex_arg)).ret]
    /\ UNCHANGED <<mainVars, hex_arg, template, name_result>>

HexRetrieveEntry ==
    /\ pc = "idle" /\ ~hex_result.done /\ hex_arg \in HexArgs
    /\ hex_result' = [done |-> TRUE, option |-> "s",
                      ret |-> retrieve_entry_point(Some(hex_arg)).ret]
    /\ UNCHANGED <<mainVars, hex_arg, template, name_result>>

NextHex == HexRetrieveBase \/ HexRetrieveEntry

SpecHex == InitHex /\ [][NextHex]_vars

----
\* The name sanitizer on its own: every template of a bounded shape is handed
\* to retrieve_tape_entry_name, as the --name argument or as the default.

HelloWorld == Str(<<"h", "e", "l", "l", "o", " ", "w", "o", "r", "l", "d">>)

Templates ==
    SeqsUpTo({Ord["a"], Ord["B"], Ord[" "], Ord["1"]}, MaxTemplateLen) \cup
    SeqsUpTo({Ord[c] : c \in {"@", "A", "Z", "[", "backquote", "a", "z", "{",
                              "e-acute", " "}}, 3) \cup
    {HelloWorld, Str(<<"a", "b", " ", "c", "d">>), Str(<<"1", "2", "3">>)}

InitName ==
    /\ IdleMain /\ IdleHex
    /\ template \in Templates
    /\ name_result = [done |-> FALSE]

SanitizeNameOption ==
    /\ pc = "idle" /\ ~name_result.done /\ template \in Templates
    /\ LET r == retrieve_tape_entry_name(<<>>, Some(template))
       IN  name_result' = [done |-> TRUE, from |-> "option",
                           name |-> r[1], has_letters |-> r[2]]
    /\ UNCHANGED <<mainVars, hex_arg, hex_result, template>>

SanitizeDefaultName ==
    /\ pc = "idle" /\ ~name_result.done /\ template \in Templates
    /\ LET r == retrieve_tape_entry_name(template, None)
       IN  name_result' = [done |-> TRUE, from |-> "default",
                           name |-> r[1], has_letters |-> r[2]]
    /\ UNCHANGED <<mainVars, hex_arg, hex_result, template>>

NextName == SanitizeNameOption \/ SanitizeDefaultName

SpecName == InitName /\ [][NextName]_vars

----
\* Properties of the name sanitizer.

IsUpper(c) == c >= 65 /\ c <= 90
IsLower(c) == c >= 97 /\ c <= 122
IsAsciiLetter(c) == IsUpper(c) \/ IsLower(c)
UpperCased(c) == IF IsLower(c) THEN c - 32 ELSE c

\* The positions of t whose character is retained: an ASCII letter, or a space
\* with a letter somewhere before it.
RetainedAt(t) ==
    {i \in 1..Len(t) :
        \/ IsAsciiLetter(t[i])
        \/ t[i] = 32 /\ \E j \in 1..(i - 1) : IsAsciiLetter(t[j])}

\* The k-th retained position of t.
KthRetained(t, k) ==
    CHOOSE i \in RetainedAt(t) : Cardinality({j \in RetainedAt(t) : j <= i}) = k

\* The first 6 retained characters, upper-cased, right-padded with spaces.
ExpectedName(t) ==
    [k \in 1..NameLen |->
        IF k <= Cardinality(RetainedAt(t)) THEN UpperCased(t[KthRetained(t, k)])
        ELSE 32]

SixSpaces == [k \in 1..NameLen |-> 32]

\* C5: for every template the sanitizer returns exactly 6 bytes, the first 6
\* retained characters (letters upper-cased, spaces only after a letter, all
\* else dropped) right-padded with spaces; the flag is true iff a letter was
\* retained; the name starts with a space only when it is all spaces.
C5_NameSanitizer ==
    name_result.done =>
        /\ Len(name_result.name) = NameLen
        /\ name_result.name = ExpectedName(template)
        /\ name_result.has_letters = (\E i \in 1..Len(template) : IsAsciiLetter(template[i]))
        /\ name_result.name[1] = 32 => name_result.name = SixSpaces
        /\ template = Str(<<"a", "b", " ", "c", "d">>) =>
              name_result.name = Str(<<"A", "B", " ", "C", "D", " ">>) /\ name_result.has_letters
        /\ template \in {<<>>, Str(<<"1", "2", "3">>)} =>
              name_result.name = SixSpaces /\ ~name_result.has_letters

\* A template with a dropped leading space, a dropped digit, a retained inner
\* space and a padded result has been sanitized.
C5_Witness ==
    /\ name_result.done
    /\ Len(template) = MaxTemplateLen
    /\ template[1] = 32 /\ template[2] = 49 /\ template[3] = 97 /\ template[4] = 32
    /\ Cardinality(RetainedAt(template)) = 5
    /\ name_result.name = Str(<<"A", " ", "B", "A", "B", " ">>)

\* C10 as stated: "hello world" is sanitized to "HELLOW".
C10_HelloWorldAsStated ==
    (name_result.done /\ template = HelloWorld) =>
        name_result.name = Str(<<"H", "E", "L", "L", "O", "W">>)

\* C10 as amended: "hello world" is sanitized to "HELLO " (the space after the
\* letters is retained and is the sixth character) with the flag true.
C10_HelloWorld ==
    (name_result.done /\ template = HelloWorld) =>
        name_result.name = Str(<<"H", "E", "L", "L", "O", " ">>) /\ name_result.has_letters

C10_Witness == name_result.done /\ template = HelloWorld

----
\* Properties of the hex argument parser.

\* The argument after its optional 0x / 0X.
HexDigitsOf(arg) ==
    IF Len(arg) >= 2 /\ arg[1] = 48 /\ arg[2] \in {120, 88}
    THEN SubSeq(arg, 3, Len(arg)) ELSE arg

IsHexDigit(c) == (c >= 48 /\ c <= 57) \/ (c >= 65 /\ c <= 70) \/ (c >= 97 /\ c <= 102)
AllHex(digits) == \A i \in 1..Len(digits) : IsHexDigit(digits[i])
DigitValue(c) == IF c <= 57 THEN c - 48 ELSE IF c <= 70 THEN c - 55 ELSE c - 87

\* The digits without their leading zeros.
RECURSIVE Significant(_)
Significant(digits) ==
    IF digits # <<>> /\ Head(digits) = 48 THEN Significant(Tail(digits)) ELSE digits

\* The value of at most 4 significant digits.
RECURSIVE SmallValue(_)
SmallValue(digits) ==
    IF digits = <<>> THEN 0
    ELSE (SmallValue(SubSeq(digits, 1, Len(digits) - 1)) * 16) + DigitValue(digits[Len(digits)])

\* The value of the digits exceeds 0xFFFF iff more than 4 are significant.
ExceedsFFFF(digits) == Len(Significant(digits)) > 4

\* C7: an argument whose hex value exceeds 0xFFFF is refused, whatever its
\* length, and an accepted argument yields the value of its digits.
C7_HexArgument ==
    hex_result.done =>
        LET digits == HexDigitsOf(hex_arg)
        IN  /\ (AllHex(digits) /\ ExceedsFFFF(digits)) => ~hex_result.ret.some
            /\ (AllHex(digits) /\ hex_result.ret.some) =>
                  /\ ~ExceedsFFFF(digits)
                  /\ hex_result.ret.val.address = SmallValue(Significant(digits))

----
\* Reading a tape image back, as the loader does.

HeaderLen == LeaderLen + 2 + NameLen

ParseFailure == [ok |-> FALSE, records |-> <<>>]

\* The chunk records of buf[pos..last]: each is 0x3C, a length byte (0 means
\* 256), two address bytes, that many data bytes and a checksum byte.
RECURSIVE ParseRecords(_, _, _)
ParseRecords(buf, pos, last) ==
    IF pos > last THEN [ok |-> TRUE, records |-> <<>>]
    ELSE IF pos + 3 > last \/ buf[pos] # 60 THEN ParseFailure
    ELSE LET n == IF buf[pos + 1] = 0 THEN 256 ELSE buf[pos + 1]
         IN  IF pos + 4 + n > last THEN ParseFailure
             ELSE LET rest == ParseRecords(buf, pos + 5 + n, last)
                      record == [length_byte |-> buf[pos + 1],
                                 addr_lo |-> buf[pos + 2],
                                 addr_hi |-> buf[pos + 3],
                                 data |-> SubSeq(buf, pos + 4, pos + 3 + n),
                                 checksum |-> buf[pos + 4 + n]]
                  IN  IF rest.ok
                      THEN [ok |-> TRUE, records |-> <<record>> \o rest.records]
                      ELSE ParseFailure

\* The data bytes of the records, concatenated in order.
RECURSIVE DataOf(_)
DataOf(records) ==
    IF records = <<>> THEN <<>> ELSE Head(records).data \o DataOf(Tail(records))

\* The sum of seq[lo..hi].
RECURSIVE SumRange(_, _, _)
SumRange(seq, lo, hi) ==
    IF lo > hi THEN 0
    ELSE IF lo = hi THEN seq[lo]
    ELSE LET mid == (lo + hi) \div 2
         IN  SumRange(seq, lo, mid) + SumRange(seq, mid + 1, hi)

\* The checksum a loader computes for a record's address and data bytes.
LoaderChecksum(addr_lo, addr_hi, data) ==
    (addr_lo + addr_hi + SumRange(data, 1, Len(data))) % 256

\* The records pack_binary_image has emitted so far: what follows the header
\* in the output buffer, without the trailer once finalize_data_entry has run.
Emitted ==
    ParseRecords(output_buffer, HeaderLen + 1,
                 IF pc \in {"pack_loop", "finalize"} THEN Len(output_buffer)
                 ELSE Len(output_buffer) - 3)

\* pack_binary_image has returned (and pack may have gone on).
Packed == packed_report.some
\* The input was loaded and passed input_file_sanity_check.
Encoding == Len(output_buffer) > 0

CeilDiv(a, b) == (a + b - 1) \div b

----
\* Properties of the packer.

\* C1: re-parsing the chunk records pack_binary_image emitted and
\* concatenating their data recovers the input byte for byte; a 256-byte
\* chunk carries length byte 0 and no record declares an empty chunk.
C1_RoundTrip ==
    Packed =>
        /\ Len(input_buffer) >= 1 /\ Len(input_buffer) <= AddrSpace - base_address
        /\ Emitted.ok
        /\ DataOf(Emitted.records) = input_buffer
        /\ \A i \in 1..Len(Emitted.records) :
              LET r == Emitted.records[i]
              IN  /\ Len(r.data) >= 1
                  /\ Len(r.data) = 256 <=> r.length_byte = 0
                  /\ Len(r.data) < 256 => r.length_byte = Len(r.data)

\* Two full chunks that end exactly at the top of the address space were packed.
C1_Witness ==
    /\ pc = "finalize"
    /\ Len(input_buffer) = 2 * ChunkSize
    /\ base_address = AddrSpace - (2 * ChunkSize)
    /\ Len(Emitted.records) = 2

\* The layout of a complete tape image for the given name and entry point.
TapeLayout(buf, name, entry) ==
    /\ Len(buf) > HeaderLen + 3
    /\ \A i \in 1..256 : buf[i] = 0
    /\ buf[257] = 165
    /\ buf[258] = 85
    /\ \A i \in 1..6 : buf[258 + i] = name[i]
    /\ LET body == ParseRecords(buf, 265, Len(buf) - 3)
       IN  body.ok /\ Len(body.records) >= 1
    /\ buf[Len(buf) - 2] = 120
    /\ buf[Len(buf) - 1] = entry % 256
    /\ buf[Len(buf)] = entry \div 256

\* C2: the buffer handed to the write step, and the file a successful pack
\* leaves, is 256 zero bytes, 0xA5, 0x55, the 6 name bytes, the chunk records
\* from offset 264 and nothing else, then 0x78 and the entry point, low byte first.
C2_Layout ==
    /\ pc = "write" => TapeLayout(output_buffer, tape_entry_name, entry_point)
    /\ out_file.state = "written" =>
          /\ out_file.content = output_buffer
          /\ TapeLayout(out_file.content, tape_entry_name, entry_point)

\* A tape with a name that has an inner space and an entry point whose two
\* bytes differ was written.
C2_Witness ==
    /\ out_file.state = "written"
    /\ exit_status = 0
    /\ entry_point = 65281
    /\ tape_entry_name = Str(<<"A", "B", " ", "C", "D", " ">>)
    /\ Len(input_buffer) = 300

\* The positions and values a record's data is corrupted at and with: every
\* other value for a record of one or two bytes, a few for a longer one.
ProbePositions(data) == {1, (Len(data) + 1) \div 2, Len(data)}
ProbeValues(data, old) ==
    IF Len(data) <= 2 THEN Byte \ {old}
    ELSE ({0, 255} \cup {(old + d) % 256 : d \in {1, 2, 127, 128, 255}}) \ {old}

\* C3: every record's checksum byte is the sum modulo 256 of its two address
\* bytes and its data bytes (not of the 0x3C and the length byte), and
\* changing one data byte to another value makes it no longer match.
C3_Checksum ==
    (pc = "finalize") =>
        \A i \in 1..Len(Emitted.records) :
            LET r == Emitted.records[i]
            IN  /\ r.checksum = LoaderChecksum(r.addr_lo, r.addr_hi, r.data)
                /\ (60 + r.length_byte) % 256 # 0 =>
                      r.checksum # (60 + r.length_byte +
                                    LoaderChecksum(r.addr_lo, r.addr_hi, r.data)) % 256
                /\ \A k \in ProbePositions(r.data) :
                      \A v \in ProbeValues(r.data, r.data[k]) :
                          r.checksum #
                              LoaderChecksum(r.addr_lo, r.addr_hi, [r.data EXCEPT ![k] = v])

\* A full chunk whose byte sum wraps was packed.
C3_Witness ==
    /\ pc = "finalize"
    /\ Len(Emitted.records) >= 2
    /\ SumRange(Emitted.records[1].data, 1, 256) > 255
    /\ Emitted.records[1].addr_lo + Emitted.records[1].addr_hi > 255

SanityFailed == diag \in {"EmptyInput", "CapacityExceeded"}

\* C4: pack fails before any encoding, leaving the destination untouched,
\* exactly when the loaded input is empty or longer than 0x10000 - base_address
\* (which the diagnostic reports as the maximum); every other length passes
\* the checks and is encoded without a panic.
C4_SanityCheck ==
    /\ exit_status # 101
    /\ SanityFailed =>
          /\ Len(input_buffer) = 0 \/ Len(input_buffer) > AddrSpace - base_address
          /\ diag = "EmptyInput" <=> Len(input_buffer) = 0
          /\ diag = "CapacityExceeded" => reported_max = AddrSpace - base_address
          /\ pc = "exit" /\ exit_status = 1
          /\ output_buffer = <<>> /\ ~Packed
          /\ out_file.state = "untouched"
    /\ Encoding =>
          /\ ~SanityFailed
          /\ Len(input_buffer) >= 1 /\ Len(input_buffer) <= AddrSpace - base_address
    /\ (Len(input_buffer) >= 1 /\ Len(input_buffer) <= AddrSpace - base_address) =>
          ~SanityFailed
    /\ (pc = "exit" /\ Len(input_buffer) >= 1
          /\ Len(input_buffer) <= AddrSpace - base_address) => Packed

\* 257 bytes at base 0xFF00 were refused, reporting a maximum of 256.
C4_Witness ==
    /\ diag = "CapacityExceeded"
    /\ base_address = 65280
    /\ Len(input_buffer) = 257
    /\ reported_max = 256

\* An input that exactly fills the address space above its base was packed.
C4_WitnessFits ==
    /\ Packed
    /\ Len(input_buffer) = AddrSpace - base_address

\* C6 as stated: status zero only with the destination fully written.
C6_ExitZeroOnlyWhenWritten ==
    pc = "exit" =>
        (exit_status = 0 <=> (out_file.state = "written" /\ out_file.content = output_buffer))

\* C6 as amended: the process exits with status zero only after the
\* destination file has been fully written or after printing the usage for
\* --help (nothing written); every other run ends with a non-zero status.
C6_ExitStatus ==
    /\ pc # "exit" => exit_status = -1 /\ out_file.state = "untouched"
    /\ pc = "exit" =>
          /\ exit_status \in {0, 1}
          /\ exit_status = 0 <=>
                \/ out_file.state = "written" /\ out_file.content = output_buffer
                                              /\ Len(output_buffer) > 0
                \/ diag = "usage" /\ out_file.state = "untouched"

\* A write failed half way and the process exited.
C6_Witness ==
    /\ pc = "exit"
    /\ out_file.state = "partial"
    /\ Len(out_file.content) = LeaderLen
    /\ exit_status = 1

\* C8: the i-th record (from 0) carries base_address + 256 * i, low byte then
\* high byte; the 16-bit addition never overflows, and each chunk ends at or
\* below 0xFFFF.
C8_LoadAddress ==
    /\ exit_status # 101
    /\ (pc \in {"pack_loop", "finalize"}) =>
          /\ Emitted.ok
          /\ \A i \in 1..Len(Emitted.records) :
                LET r == Emitted.records[i]
                    load_address == base_address + (256 * (i - 1))
                IN  /\ r.addr_lo = load_address % 256
                    /\ r.addr_hi = load_address \div 256
                    /\ load_address + Len(r.data) - 1 <= 65535
          /\ (base_address = 16384 /\ Len(input_buffer) = 300 /\ pc = "finalize") =>
                /\ Len(Emitted.records) = 2
                /\ Emitted.records[1].addr_lo = 0 /\ Emitted.records[1].addr_hi = 64
                /\ Emitted.records[2].addr_lo = 0 /\ Emitted.records[2].addr_hi = 65

\* The last chunk packed ends at 0xFFFF and starts at an address whose low
\* byte is not zero.
C8_Witness ==
    /\ pc = "finalize"
    /\ base_address % 256 = 255
    /\ base_address + Len(input_buffer) = AddrSpace
    /\ Len(Emitted.records) >= 2

\* What C9 says of the state in which the loop has ended.
C9_Counts ==
    Packed =>
        LET length == Len(input_buffer)
            n == Len(Emitted.records)
        IN  /\ Emitted.ok
            /\ already_packed = length
            /\ n = CeilDiv(length, 256)
            /\ SumRange([i \in 1..n |-> Len(Emitted.records[i].data)], 1, n) = length
            /\ \A i \in 1..(n - 1) : Len(Emitted.records[i].data) = 256
            /\ Len(Emitted.records[n].data) =
                  (IF length % 256 = 0 THEN 256 ELSE length % 256)
            /\ packed_report.val.full = length \div 256
            /\ packed_report.val.last = (IF length % 256 = 0 THEN -1 ELSE length % 256)

\* C9: the chunking loop terminates (each iteration strictly increases
\* already_packed, which never exceeds |B|, and the loop is eventually left,
\* only by its exit test), having emitted ceil(|B| / 256) records whose lengths
\* sum to |B|, all of 256 bytes but the last, which has |B| mod 256 bytes or
\* 256; it reports floor(|B| / 256) full chunks and the last chunk's size only
\* when |B| mod 256 is not zero.
C9_Chunking ==
    /\ [](C9_Counts)
    /\ [](pc = "pack_loop" => already_packed <= Len(input_buffer))
    /\ [][pc = "pack_loop" =>
            \/ pc' = "finalize" /\ already_packed' = Len(input_buffer)
            \/ pc' = "pack_loop" /\ already_packed' > already_packed]_vars
    /\ (pc = "pack_loop") ~> Packed

\* The loop ended on an exact multiple of 256, with no partial chunk to report.
C9_Witness ==
    /\ Packed
    /\ Len(input_buffer) = 2 * ChunkSize
    /\ packed_report.val = [full |-> 2, last |-> -1]

====
